---- MODULE Spec2Model ----
(***************************************************************************)
(* State-machine model of bot/cogs/adventofcode.py: the Advent of Code     *)
(* leaderboard cog (the cached leaderboard, the update loop that refreshes *)
(* it, the leaderboard and reauthenticate commands) and the pure builders  *)
(* AocLeaderboard / AocMember use to turn the API's JSON into objects.     *)
(*                                                                         *)
(* Conventions.  A Python str that the code parses (a member id, a day     *)
(* key) is a sequence of one-character strings; a str that is only tested  *)
(* for emptiness (a name) is a TLA+ string.  A JSON value whose type the   *)
(* code tests is a tagged record [t |-> ..., v |-> ...].  A Python dict is *)
(* the sequence of its items in insertion order, which is the order the    *)
(* code iterates it in.  A call that may raise returns Ok(v) or Err(e).    *)
(***************************************************************************)
EXTENDS Integers, Sequences, FiniteSets, TLC

----------------------------------------------------------------------------
(* Bounds of the model. *)

\* The clock stops advancing here, which bounds the number of refresh cycles.
MaxTime == 2
\* Number of concurrently running leaderboard command handlers.
NumHandlers == 1
\* Number of days in a member's completion_day_level, for the parser's inputs.
MaxDays == 2
\* Number of members of a leaderboard, for the inputs of the sort and of top_n.
MaxMembers == 3

(* Program constants. *)

\* adventofcode.py:283  for _i in range(25)
StarboardSize == 25
\* adventofcode.py:93   max_entries = 10
max_entries == 10
\* adventofcode.py:198  if resp.status == 200
HTTP_OK == 200
\* adventofcode.py:202  resp.raise_for_status() raises from status 400 on
HTTP_ERROR_FLOOR == 400
\* adventofcode.py:119  {name:25.25}
name_width == 25

----------------------------------------------------------------------------
(* Results of calls that may raise. *)

Ok(v) == [ok |-> TRUE, v |-> v]
Err(e) == [ok |-> FALSE, err |-> e]

(* JSON values whose type the code distinguishes. *)
JNull == [t |-> "null"]
JStr(s) == [t |-> "str", v |-> s]
JInt(i) == [t |-> "int", v |-> i]
JDict(items) == [t |-> "dict", v |-> items]

\* Python truthiness of a JSON value that is None or a str (a name): None
\* and "" are falsy.
Truthy(j) ==
    CASE j.t = "null" -> FALSE
      [] j.t = "str"  -> j.v # ""
      [] OTHER        -> TRUE

----------------------------------------------------------------------------
(* int(): Python's conversion of a str of decimal digits, with an optional *)
(* sign, to an integer; any other str raises ValueError.                   *)

DigitChars == <<"0", "1", "2", "3", "4", "5", "6", "7", "8", "9">>

IsDigit(c) == \E i \in 1..Len(DigitChars) : DigitChars[i] = c

DigitValue(c) == (CHOOSE i \in 1..Len(DigitChars) : DigitChars[i] = c) - 1

RECURSIVE DigitsValue(_, _)
DigitsValue(s, acc) ==
    IF s = <<>> THEN acc
    ELSE DigitsValue(Tail(s), acc * 10 + DigitValue(Head(s)))

AllDigits(s) == s # <<>> /\ \A i \in 1..Len(s) : IsDigit(s[i])

Signed(s) == s # <<>> /\ Head(s) \in {"-", "+"}

Unsigned(s) == IF Signed(s) THEN Tail(s) ELSE s

Sign(s) == IF Signed(s) /\ Head(s) = "-" THEN 0 - 1 ELSE 1

py_int_of_str(s) ==
    IF AllDigits(Unsigned(s)) THEN Ok(Sign(s) * DigitsValue(Unsigned(s), 0))
    ELSE Err("ValueError")

\* int(x) for a JSON value: an int is itself, a str is parsed, None raises.
py_int(j) ==
    CASE j.t = "int" -> Ok(j.v)
      [] j.t = "str" -> py_int_of_str(j.v)
      [] OTHER       -> Err("TypeError")

----------------------------------------------------------------------------
(* AocMember.  An operator that continues after a call that may raise      *)
(* takes the call's result as a parameter.                                 *)

EmptyStarboard == [i \in 1..StarboardSize |-> <<FALSE, FALSE>>]

\* starboard[idx] = value on a Python list: a negative idx counts from the
\* end, an idx outside -len..len-1 raises IndexError.  Slot idx of the list
\* is position idx+1 of the sequence.
py_list_setitem(lst, idx, value) ==
    IF idx >= 0 /\ idx < Len(lst)
    THEN Ok([lst EXCEPT ![idx + 1] = value])
    ELSE IF idx < 0 /\ idx >= 0 - Len(lst)
    THEN Ok([lst EXCEPT ![Len(lst) + idx + 1] = value])
    ELSE Err("IndexError")

\* Lines 289-294 with idx = int(day): the slot after the day's own.
StarboardMark_NoOffset(starboard, day_number, levels) ==
    IF ~day_number.ok THEN day_number
    ELSE py_list_setitem(starboard, day_number.v,
                         IF "2" \in levels THEN <<TRUE, TRUE>>
                         ELSE <<TRUE, FALSE>>)

\* Lines 289-294 with each star of the slot set from its own key.
StarboardMark_PerLevel(starboard, day_number, levels) ==
    IF ~day_number.ok THEN day_number
    ELSE py_list_setitem(starboard, day_number.v - 1,
                         <<"1" \in levels, "2" \in levels>>)

\* Lines 289-294, with day_number the result of int(day): [True, True] if
\* "2" is among the keys of the day's dict, [True, False] otherwise.
StarboardMark(starboard, day_number, levels) ==
    IF ~day_number.ok THEN day_number
    ELSE py_list_setitem(starboard, day_number.v - 1,
                         IF "2" \in levels THEN <<TRUE, TRUE>>
                         ELSE <<TRUE, FALSE>>)

\* The body of the loop over the days: one item <<day, levels>> of the dict,
\* where levels is the set of star-level keys of that day's dict.
StarboardDay(starboard, item) ==
    StarboardMark(starboard, py_int_of_str(item[1]), item[2])

RECURSIVE StarboardDays(_, _)
RECURSIVE StarboardRest(_, _)
\* for day in injson
StarboardDays(starboard, items) ==
    IF items = <<>> THEN Ok(starboard)
    ELSE StarboardRest(StarboardDay(starboard, Head(items)), Tail(items))

StarboardRest(marked, items) ==
    IF marked.ok THEN StarboardDays(marked.v, items) ELSE marked

_starboard_from_json(injson) ==
    IF injson.t # "dict" THEN Err("ValueError")
    ELSE StarboardDays(EmptyStarboard, injson.v)

RECURSIVE CountDays(_, _, _)
CountDays(starboard, part, i) ==
    IF i > Len(starboard) THEN 0
    ELSE (IF starboard[i][part] THEN 1 ELSE 0) + CountDays(starboard, part, i + 1)

\* Lines 304-309 with the second test under elif: a day counts for part
\* two only when part one is not done.
_completions_elif(starboard) ==
    <<CountDays(starboard, 1, 1),
      Cardinality({i \in 1..Len(starboard) :
                      ~starboard[i][1] /\ starboard[i][2]})>>

\* Lines 298-311: the days with the first star, the days with the second.
_completions_from_starboard(starboard) ==
    <<CountDays(starboard, 1, 1), CountDays(starboard, 2, 1)>>

\* AocMember.__init__
AocMember(name, aoc_id, stars, starboard, local_score, global_score) ==
    [name |-> name,
     aoc_id |-> aoc_id,
     stars |-> stars,
     starboard |-> starboard,
     local_score |-> local_score,
     global_score |-> global_score,
     completions |-> _completions_from_starboard(starboard)]

\* The keyword arguments of cls(...) in the order they are evaluated, with
\* aoc_id the result of int(injson["id"]) and starboard the result of
\* _starboard_from_json(injson["completion_day_level"]): the first missing
\* key or failed call is the one that raises.
MemberOf(injson, aoc_id, starboard) ==
    IF "name" \notin DOMAIN injson THEN Err("KeyError")
    ELSE IF "id" \notin DOMAIN injson THEN Err("KeyError")
    ELSE IF ~aoc_id.ok THEN aoc_id
    ELSE IF "stars" \notin DOMAIN injson THEN Err("KeyError")
    ELSE IF "completion_day_level" \notin DOMAIN injson THEN Err("KeyError")
    ELSE IF ~starboard.ok THEN starboard
    ELSE IF "local_score" \notin DOMAIN injson THEN Err("KeyError")
    ELSE IF "global_score" \notin DOMAIN injson THEN Err("KeyError")
    ELSE Ok(AocMember(IF Truthy(injson.name) THEN injson.name.v
                      ELSE "Anonymous User",
                      aoc_id.v, injson.stars, starboard.v,
                      injson.local_score, injson.global_score))

member_from_json(injson) ==
    MemberOf(injson, py_int(injson.id),
             _starboard_from_json(injson.completion_day_level))

----------------------------------------------------------------------------
(* AocLeaderboard *)

\* list.sort(key=local_score, reverse=True): stable, so a member goes after
\* every member already placed whose score is at least its own.
\* The insertion of a sort that is not stable: a member goes before the
\* members already placed that have its score.
RECURSIVE InsertBeforeTies(_, _)
InsertBeforeTies(sorted, m) ==
    IF sorted = <<>> THEN <<m>>
    ELSE IF Head(sorted).local_score > m.local_score
         THEN <<Head(sorted)>> \o InsertBeforeTies(Tail(sorted), m)
         ELSE <<m>> \o sorted

RECURSIVE InsertByScore(_, _)
InsertByScore(sorted, m) ==
    IF sorted = <<>> THEN <<m>>
    ELSE IF Head(sorted).local_score >= m.local_score
         THEN <<Head(sorted)>> \o InsertByScore(Tail(sorted), m)
         ELSE <<m>> \o sorted

RECURSIVE SortByScore(_, _)
SortByScore(members, acc) ==
    IF members = <<>> THEN acc
    ELSE SortByScore(Tail(members), InsertByScore(acc, Head(members)))

RECURSIVE BuildMembers(_, _)
RECURSIVE BuildRest(_, _, _)
\* [AocMember.member_from_json(injson[member]) for member in injson]
BuildMembers(raws, acc) ==
    IF raws = <<>> THEN Ok(acc)
    ELSE BuildRest(member_from_json(Head(raws)), Tail(raws), acc)

BuildRest(member, raws, acc) ==
    IF member.ok THEN BuildMembers(raws, Append(acc, member.v)) ELSE member

\* members.sort(...) on the list the comprehension built
SortBuilt(members) ==
    IF members.ok THEN Ok(SortByScore(members.v, <<>>)) ELSE members

_sorted_members(injson) == SortBuilt(BuildMembers(injson, <<>>))

\* cls(members=..., owner_id=injson["owner_id"], event_year=injson["event"])
\* and __init__ at time t, with members the result of _sorted_members.
NewLeaderboard(members, injson, t) ==
    IF ~members.ok THEN members
    ELSE IF "owner_id" \notin DOMAIN injson THEN Err("KeyError")
    ELSE IF "event" \notin DOMAIN injson THEN Err("KeyError")
    ELSE Ok([members |-> members.v,
             _owner_id |-> injson.owner_id,
             _event_year |-> injson.event,
             last_updated |-> t])

from_json(injson, t) ==
    IF "members" \notin DOMAIN injson THEN Err("KeyError")
    ELSE NewLeaderboard(_sorted_members(injson.members), injson, t)

\* self.members = <the result of _sorted_members>: nothing else is assigned.
AssignMembers(board, members) ==
    IF members.ok THEN Ok([board EXCEPT !.members = members.v]) ELSE members

\* _update with the sorted list bound to a local name instead of the
\* attribute: the object keeps the members it had.
_update_assigns_local(board, injson) ==
    IF "members" \notin DOMAIN injson THEN Err("KeyError")
    ELSE IF _sorted_members(injson.members).ok THEN Ok(board)
    ELSE _sorted_members(injson.members)

\* AocLeaderboard._update on the object board.
_update(board, injson) ==
    IF "members" \notin DOMAIN injson THEN Err("KeyError")
    ELSE AssignMembers(board, _sorted_members(injson.members))

\* self.members[:n - 1]: the slice stops one member early.
top_n_stops_early(board, n) ==
    LET len == Len(board.members)
        stop == IF n - 1 < len THEN n - 1 ELSE len
    IN  SubSeq(board.members, 1, stop)

\* self.members[:n], a Python slice: a negative n drops the last -n members.
top_n(board, n) ==
    LET len == Len(board.members)
        stop == IF n >= 0 THEN (IF n < len THEN n ELSE len)
                ELSE (IF len + n > 0 THEN len + n ELSE 0)
    IN  SubSeq(board.members, 1, stop)

----------------------------------------------------------------------------
(* AocLeaderboard.json_from_url, after the response arrived.  A response   *)
(* is [kind |-> "http", status, decodable, body] or [kind |-> "transport"] *)
(* (the request raised: timeout, reset, DNS).                              *)

json_from_url(resp) ==
    IF resp.kind = "transport" THEN Err("ClientError")
    ELSE IF resp.status = HTTP_OK
         THEN (IF resp.decodable THEN Ok(resp.body) ELSE Err("ContentTypeError"))
    \* resp.raise_for_status() raises only from 400 on; below that it
    \* returns and `return raw_dict` reads a name that was never bound
    ELSE IF resp.status >= HTTP_ERROR_FLOOR
         THEN [ok |-> FALSE, err |-> "ClientResponseError", status |-> resp.status]
    ELSE Err("UnboundLocalError")

----------------------------------------------------------------------------
(* Inputs: the documents the API may answer with, the statuses, the        *)
(* requested numbers of entries and the values of the environment.         *)

RawAlice ==
    [name |-> JStr("alice"), id |-> JStr(<<"1">>), stars |-> 3,
     completion_day_level |->
        JDict(<< <<(<<"1">>), {"1", "2"}>>, <<(<<"2">>), {"1"}>> >>),
     local_score |-> 20, global_score |-> 0]

RawBob ==
    [name |-> JStr(""), id |-> JStr(<<"4", "2">>), stars |-> 1,
     completion_day_level |-> JDict(<< <<(<<"2", "5">>), {"1"}>> >>),
     local_score |-> 20, global_score |-> 5]

RawCarol ==
    [name |-> JNull, id |-> JInt(7), stars |-> 0,
     completion_day_level |-> JDict(<<>>),
     local_score |-> 30, global_score |-> 0]

RawBroken ==
    [name |-> JStr("dave"), id |-> JStr(<<"9">>), stars |-> 0,
     completion_day_level |-> JStr("not an object"),
     local_score |-> 40, global_score |-> 0]

BodyFirst == [members |-> <<RawAlice, RawBob>>, owner_id |-> 1, event |-> 2018]

BodySecond ==
    [members |-> <<RawBob, RawCarol, RawAlice>>, owner_id |-> 2, event |-> 2019]

BodyNoOwner == [members |-> <<RawCarol>>, event |-> 2018]

BodyNoMembers == [owner_id |-> 1, event |-> 2018]

BodyBadMember ==
    [members |-> <<RawAlice, RawBroken>>, owner_id |-> 1, event |-> 2018]

Bodies == {BodyFirst, BodySecond, BodyNoOwner, BodyNoMembers, BodyBadMember}

Responses ==
    {[kind |-> "http", status |-> HTTP_OK, decodable |-> TRUE, body |-> b] :
        b \in Bodies}
    \cup {[kind |-> "http", status |-> HTTP_OK, decodable |-> FALSE]}
    \cup {[kind |-> "http", status |-> s] : s \in {204, 404, 500}}
    \cup {[kind |-> "transport"]}

NDisp == {0 - 1, 0, 2, 11}

ConfigCookie == "cfg"

\* os.environ, restricted to the one variable the cog reads: a mapping, as
\* the set of its <<name, value>> items.
Environs ==
    {{}} \cup {{<<"AOC_SESSION_COOKIE", v>>} : v \in {"tokA", "tokB"}}

EnvHas(env, name) == \E item \in env : item[1] = name

EnvGet(env, name) == (CHOOSE item \in env : item[1] = name)[2]

Handlers == 1..NumHandlers

(* Inputs of the functions applied on their own: every dict of days up to  *)
(* MaxDays entries, every list of up to MaxMembers scored members, every   *)
(* final HTTP status.                                                      *)

DayKeys == {<<"1">>, <<"2">>, <<"2", "5">>, <<"0">>, <<"2", "6">>}

\* The day each of the keys names.
DayNumber(day) ==
    CASE day = <<"1">> -> 1
      [] day = <<"2">> -> 2
      [] day = <<"2", "5">> -> 25
      [] day = <<"0">> -> 0
      [] day = <<"2", "6">> -> 26

StarLevels == {{"1"}, {"1", "2"}, {"2"}}

DayItems == {<<day, levels>> : day \in DayKeys, levels \in StarLevels}

\* The dicts of days: sequences of items with pairwise different keys.
DayMaps ==
    {items \in UNION {[1..k -> DayItems] : k \in 0..MaxDays} :
        \A i, j \in 1..Len(items) : i # j => items[i][1] # items[j][1]}

RawWithDays(items) ==
    [name |-> JStr("erin"), id |-> JStr(<<"3">>), stars |-> 0,
     completion_day_level |-> JDict(items),
     local_score |-> 10, global_score |-> 0]

Scores == {10, 20, 30}

\* The member at position i of the API's mapping has id i.
RawScored(i, score) ==
    [name |-> JStr("m"), id |-> JInt(i), stars |-> 0,
     completion_day_level |-> JDict(<<>>),
     local_score |-> score, global_score |-> 0]

ScoredBodies ==
    {[members |-> [i \in 1..Len(scores) |-> RawScored(i, scores[i])],
      owner_id |-> 1, event |-> 2018] :
        scores \in UNION {[1..k -> Scores] : k \in 0..MaxMembers}}

ScoredBoards == {from_json(body, 0).v : body \in ScoredBodies}

StatusCodes == 200..599

FetchResponses ==
    {[kind |-> "http", status |-> status, decodable |-> TRUE,
      body |-> BodyFirst] : status \in StatusCodes}
    \cup {[kind |-> "http", status |-> HTTP_OK, decodable |-> FALSE],
          [kind |-> "transport"]}

(* The name column of a row of the leaderboard table, lines 112-121.       *)

\* str() of an int: its decimal digits, with a sign when negative.
RECURSIVE py_str_digits(_)
py_str_digits(n) ==
    IF n < 10 THEN <<DigitChars[n + 1]>>
    ELSE py_str_digits(n \div 10) \o <<DigitChars[(n % 10) + 1]>>

py_str(n) == IF n < 0 THEN <<"-">> \o py_str_digits(0 - n) ELSE py_str_digits(n)

\* The characters of the names that occur in the inputs.
Chars(name) ==
    CASE name = "Anonymous User" ->
            <<"A", "n", "o", "n", "y", "m", "o", "u", "s", " ",
              "U", "s", "e", "r">>
      [] name = "alice" -> <<"a", "l", "i", "c", "e">>
      [] name = "" -> <<>>

\* format(s, "25.25"): s cut to the precision, then padded with spaces on
\* the right to the width.
py_format_str(s, width, precision) ==
    LET cut == IF Len(s) > precision THEN SubSeq(s, 1, precision) ELSE s
    IN  cut \o [i \in 1..(width - Len(cut)) |-> " "]

\* Lines 113-116 without the branch: the name column is the name alone.
TableName_WithoutId(member) ==
    py_format_str(Chars(member.name), name_width, name_width)

\* Lines 113-120: the name column of the row of member.
TableName(member) ==
    py_format_str(IF member.name = "Anonymous User"
                  THEN Chars(member.name) \o <<" ", "#">> \o py_str(member.aoc_id)
                  ELSE Chars(member.name),
                  name_width, name_width)

\* Raw members by name and id; id_text is the id as the API writes it.
NamedIds ==
    {[raw |-> JStr(<<"7">>), text |-> <<"7">>],
     [raw |-> JStr(<<"4", "2">>), text |-> <<"4", "2">>],
     [raw |-> JStr(<<"1", "2", "3", "4", "5", "6", "7", "8", "9">>),
      text |-> <<"1", "2", "3", "4", "5", "6", "7", "8", "9">>],
     [raw |-> JStr(<<"1", "2", "3", "4", "5", "6", "7", "8", "9", "0">>),
      text |-> <<"1", "2", "3", "4", "5", "6", "7", "8", "9", "0">>]}

RawNames == {JNull, JStr(""), JStr("alice"), JStr("Anonymous User")}

RawNamed(name, id) ==
    [name |-> name, id |-> id, stars |-> 0,
     completion_day_level |-> JDict(<<>>),
     local_score |-> 10, global_score |-> 0]

(* gitlab.py: the project cache and the commands that take a project.    *)

\* Python's == on an int and a str: values of different types are unequal.
py_eq(a, b) == a.t = b.t /\ a.v = b.v

\* on_ready: {project['id']: project['name'] for project in projects}, a
\* dict from the ids (JSON numbers) to the names, as its items in order.
on_ready(projects) ==
    [i \in 1..Len(projects) |->
        [project_id |-> JInt(projects[i].id), name |-> JStr(projects[i].name)]]

\* get_project: the first item whose name or id == name_or_id, or None.
RECURSIVE get_project(_, _)
get_project(projects, name_or_id) ==
    IF projects = <<>> THEN JNull
    ELSE IF py_eq(Head(projects).name, name_or_id)
            \/ py_eq(Head(projects).project_id, name_or_id)
         THEN Head(projects)
         ELSE get_project(Tail(projects), name_or_id)

\* _request after the response arrived: the body for a 2xx, GitlabException
\* otherwise.
_request(response) ==
    IF 200 <= response.status /\ response.status < 300
    THEN Ok(response.body) ELSE Err("GitlabException")

\* What the command does once the tracker answered, with answer the result
\* of _request: fail(e.message), or "No issues found" (get_issues, empty
\* list), or the issues or the issue shown.
GitlabReply(cmd, answer) ==
    IF ~answer.ok THEN "failed"
    ELSE IF cmd = "get_issues" /\ answer.v = <<>> THEN "no_issues"
    ELSE "shown"

\* get_issues, get_issue, create_issue with found the result of
\* get_project: the requests sent to the tracker and the reply to the
\* invoker.
GitlabCommand(cmd, found, response) ==
    IF found = JNull
    THEN [requests |-> <<>>, reply |-> "unknown_project"]
    ELSE [requests |-> <<[method |-> IF cmd = "create_issue" THEN "post"
                                     ELSE "get",
                          project_id |-> found.project_id.v]>>,
          reply |-> GitlabReply(cmd, _request(response))]

\* The projects the tracker lists, the arguments and the tracker's answers.
TrackerProjects ==
    {<<>>,
     <<[id |-> 12, name |-> <<"b", "o", "t">>],
       [id |-> 7, name |-> <<"s", "i", "t", "e">>]>>}

ProjectArguments ==
    {<<"b", "o", "t">>, <<"s", "i", "t", "e">>, <<"1", "2">>, <<"7">>,
     <<"n", "o", "p", "e">>}

TrackerResponses ==
    {[status |-> 200, body |-> <<"issue">>],
     [status |-> 200, body |-> <<>>],
     [status |-> 404, body |-> <<>>]}

GitlabCommands == {"get_issues", "get_issue", "create_issue"}

Calls ==
    {[kind |-> "member", v |-> RawWithDays(items)] : items \in DayMaps}
    \cup {[kind |-> "gitlab", cmd |-> cmd, listed |-> listed,
           project |-> project, response |-> response] :
             cmd \in GitlabCommands, listed \in TrackerProjects,
             project \in ProjectArguments, response \in TrackerResponses}
    \cup {[kind |-> "row", v |-> RawNamed(name, id.raw), id_text |-> id.text] :
             name \in RawNames, id \in NamedIds}
    \cup {[kind |-> "leaderboard", v |-> body] : body \in ScoredBodies}
    \cup {[kind |-> "top_n", board |-> board, n |-> n] :
             board \in ScoredBoards, n \in 1..(MaxMembers + 1)}
    \cup {[kind |-> "response", v |-> resp] : resp \in FetchResponses}

----------------------------------------------------------------------------
VARIABLES
    AOC_SESSION_COOKIE,  \* the module global: the cookies of the next session
    environ,             \* os.environ
    cached_leaderboard,  \* self.cached_leaderboard: 0 (None) or a heap address
    heap,                \* the AocLeaderboard objects built so far
    loop_pc,             \* where aoc_update_loop stands
    requests,            \* the requests in flight, each with its session's cookies
    now,                 \* datetime.utcnow()
    handler_pc,          \* where each aoc_leaderboard handler stands
    sent,                \* the message ctx.send delivered last, and for whom
    good_cycles,         \* history: the refresh cycles that wrote the cache
    last_outcome,        \* history: how the last refresh attempt ended
    latest_credential,   \* history: the value the last reload read, or the config's
    last_log,            \* the last record reauthenticate wrote to the log
    arg,                 \* the input of a function applied on its own
    result,              \* what that application returned or raised
    objects,             \* a leaderboard's list objects and which one is .members
    held                 \* the list object a reader got from top_n, or 0

vars == <<AOC_SESSION_COOKIE, environ, cached_leaderboard, heap, loop_pc,
          requests, now, handler_pc, sent, good_cycles, last_outcome,
          latest_credential, last_log, arg, result, objects, held>>

credVars == <<AOC_SESSION_COOKIE, environ, latest_credential, last_log>>
cacheVars == <<cached_leaderboard, heap>>
loopVars == <<loop_pc, requests, now, good_cycles, last_outcome>>
handlerVars == <<handler_pc, sent>>
refVars == <<objects, held>>
pureVars == <<arg, result, refVars>>

\* No leaderboard object is followed.
NoObjects == [lists |-> <<>>, members |-> 0]

NoMessage == [kind |-> "none"]
NoCall == [fn |-> "none"]

\* AdventOfCode.__init__ and setup: the cog is constructed and added; the
\* coroutine aoc_update_loop is not scheduled by either.
Init ==
    /\ AOC_SESSION_COOKIE = [session |-> ConfigCookie]
    /\ environ \in Environs
    /\ cached_leaderboard = 0
    /\ heap = <<>>
    /\ loop_pc = "not_started"
    /\ requests = <<>>
    /\ now = 0
    /\ handler_pc = [h \in Handlers |-> "idle"]
    /\ sent = NoMessage
    /\ good_cycles = <<>>
    /\ last_outcome = "none"
    /\ latest_credential = ConfigCookie
    /\ last_log = "none"
    /\ arg = NoCall
    /\ result = NoCall
    /\ objects = NoObjects
    /\ held = 0

\* What a reader of the cache gets: None or the object the slot refers to.
Read == IF cached_leaderboard = 0 THEN [kind |-> "empty"]
        ELSE [kind |-> "snapshot", board |-> heap[cached_leaderboard]]

----------------------------------------------------------------------------
(* AdventOfCode.aoc_update_loop.  The coroutine suspends in two places:    *)
(* awaiting the response inside json_from_url, and in asyncio.sleep.  What *)
(* runs between two suspensions is one action.  No statement of the loop   *)
(* catches an exception, so one that is raised ends the coroutine.         *)

\* A caller schedules aoc_update_loop() on the event loop.
StartLoop ==
    /\ loop_pc = "not_started"
    /\ loop_pc' = "ready"
    /\ UNCHANGED <<requests, now, good_cycles, last_outcome>>
    /\ UNCHANGED <<credVars, cacheVars, handlerVars>>
    /\ UNCHANGED pureVars

\* The loop with json_from_url scheduled as a task instead of awaited: the
\* next fetch starts while the previous request is still in flight.
LoopBeginFetch_NotAwaited ==
    /\ loop_pc \in {"ready", "awaiting"}
    /\ requests' = Append(requests, [cookies |-> AOC_SESSION_COOKIE])
    /\ loop_pc' = "awaiting"
    /\ UNCHANGED <<now, good_cycles, last_outcome>>
    /\ UNCHANGED <<credVars, cacheVars, handlerVars>>
    /\ UNCHANGED pureVars

\* while True: json_from_url() opens a ClientSession with the cookies the
\* global holds now, sends the GET and suspends until the response.
LoopBeginFetch ==
    /\ loop_pc = "ready"
    /\ requests' = Append(requests, [cookies |-> AOC_SESSION_COOKIE])
    /\ loop_pc' = "awaiting"
    /\ UNCHANGED <<now, good_cycles, last_outcome>>
    /\ UNCHANGED <<credVars, cacheVars, handlerVars>>
    /\ UNCHANGED pureVars

\* The loop with a handler around json_from_url that drops the cache when
\* the fetch raises.
LoopFetchFailed_ClearsCache ==
    /\ loop_pc = "awaiting"
    /\ requests # <<>>
    /\ \E resp \in Responses :
        /\ ~json_from_url(resp).ok
        /\ requests' = Tail(requests)
        /\ loop_pc' = "crashed"
        /\ last_outcome' = "fetch_failed"
    /\ cached_leaderboard' = 0
    /\ UNCHANGED <<now, good_cycles, heap>>
    /\ UNCHANGED <<credVars, handlerVars>>
    /\ UNCHANGED pureVars

\* The response is not a decodable 200 or the request raised: json_from_url
\* raises, the exception leaves aoc_update_loop.
LoopFetchFailed ==
    /\ loop_pc = "awaiting"
    /\ requests # <<>>
    /\ \E resp \in Responses :
        /\ ~json_from_url(resp).ok
        /\ requests' = Tail(requests)
        /\ loop_pc' = "crashed"
        /\ last_outcome' = "fetch_failed"
    /\ UNCHANGED <<now, good_cycles>>
    /\ UNCHANGED <<credVars, cacheVars, handlerVars>>
    /\ UNCHANGED pureVars

\* A 200 arrives and nothing is cached yet: from_json builds a new object
\* and the slot is pointed at it; then the loop sleeps.
LoopFirstBuild ==
    /\ loop_pc = "awaiting"
    /\ requests # <<>>
    /\ cached_leaderboard = 0
    /\ \E resp \in Responses :
        /\ json_from_url(resp).ok
        /\ LET raw == json_from_url(resp).v
               built == from_json(raw, now)
           IN  /\ built.ok
               /\ heap' = Append(heap, built.v)
               /\ cached_leaderboard' = Len(heap) + 1
               /\ good_cycles' = Append(good_cycles, [raw |-> raw, at |-> now])
    /\ requests' = Tail(requests)
    /\ loop_pc' = "sleeping"
    /\ last_outcome' = "ok"
    /\ UNCHANGED now
    /\ UNCHANGED <<credVars, handlerVars>>
    /\ UNCHANGED pureVars

\* A 200 arrives and a leaderboard is cached: _update assigns the members
\* of the cached object; then the loop sleeps.
LoopUpdate ==
    /\ loop_pc = "awaiting"
    /\ requests # <<>>
    /\ cached_leaderboard # 0
    /\ \E resp \in Responses :
        /\ json_from_url(resp).ok
        /\ LET raw == json_from_url(resp).v
               updated == _update(heap[cached_leaderboard], raw)
           IN  /\ updated.ok
               /\ heap' = [heap EXCEPT ![cached_leaderboard] = updated.v]
               /\ good_cycles' = Append(good_cycles, [raw |-> raw, at |-> now])
    /\ requests' = Tail(requests)
    /\ loop_pc' = "sleeping"
    /\ last_outcome' = "ok"
    /\ UNCHANGED <<now, cached_leaderboard>>
    /\ UNCHANGED <<credVars, handlerVars>>
    /\ UNCHANGED pureVars

\* The members member_from_json built before the first one that raises.
RECURSIVE BuiltPrefix(_, _)
RECURSIVE BuiltPrefixRest(_, _, _)
BuiltPrefix(raws, acc) ==
    IF raws = <<>> THEN acc
    ELSE BuiltPrefixRest(member_from_json(Head(raws)), Tail(raws), acc)

BuiltPrefixRest(member, raws, acc) ==
    IF member.ok THEN BuiltPrefix(raws, Append(acc, member.v)) ELSE acc

\* The loop with _update appending each member to self.members as it is
\* built: a build that raises leaves the members built so far in the cache.
LoopBuildFailed_PartialMembers ==
    /\ loop_pc = "awaiting"
    /\ requests # <<>>
    /\ \E resp \in Responses :
        /\ json_from_url(resp).ok
        /\ LET raw == json_from_url(resp).v
           IN  /\ IF cached_leaderboard = 0
                  THEN ~from_json(raw, now).ok
                  ELSE ~_update(heap[cached_leaderboard], raw).ok
               /\ heap' = IF cached_leaderboard # 0 /\ "members" \in DOMAIN raw
                          THEN [heap EXCEPT ![cached_leaderboard].members =
                                    BuiltPrefix(raw.members, <<>>)]
                          ELSE heap
    /\ requests' = Tail(requests)
    /\ loop_pc' = "crashed"
    /\ last_outcome' = "build_failed"
    /\ UNCHANGED <<now, good_cycles, cached_leaderboard>>
    /\ UNCHANGED <<credVars, handlerVars>>
    /\ UNCHANGED pureVars

\* The loop with a handler around the build that resets the cache to None
\* when from_json or _update raises.
LoopBuildFailed_ClearsCache ==
    /\ loop_pc = "awaiting"
    /\ requests # <<>>
    /\ \E resp \in Responses :
        /\ json_from_url(resp).ok
        /\ LET raw == json_from_url(resp).v
           IN  IF cached_leaderboard = 0
               THEN ~from_json(raw, now).ok
               ELSE ~_update(heap[cached_leaderboard], raw).ok
    /\ requests' = Tail(requests)
    /\ loop_pc' = "crashed"
    /\ last_outcome' = "build_failed"
    /\ cached_leaderboard' = 0
    /\ UNCHANGED <<now, good_cycles, heap>>
    /\ UNCHANGED <<credVars, handlerVars>>
    /\ UNCHANGED pureVars

\* A 200 arrives and from_json or _update raises: nothing has been assigned
\* (the right-hand side raised), the exception leaves aoc_update_loop.
LoopBuildFailed ==
    /\ loop_pc = "awaiting"
    /\ requests # <<>>
    /\ \E resp \in Responses :
        /\ json_from_url(resp).ok
        /\ LET raw == json_from_url(resp).v
           IN  IF cached_leaderboard = 0
               THEN ~from_json(raw, now).ok
               ELSE ~_update(heap[cached_leaderboard], raw).ok
    /\ requests' = Tail(requests)
    /\ loop_pc' = "crashed"
    /\ last_outcome' = "build_failed"
    /\ UNCHANGED <<now, good_cycles>>
    /\ UNCHANGED <<credVars, cacheVars, handlerVars>>
    /\ UNCHANGED pureVars

\* The loop invalidating the cache at the top of each iteration, before it
\* fetches again.
LoopWake_ExpiresCache ==
    /\ loop_pc = "sleeping"
    /\ now < MaxTime
    /\ now' = now + 1
    /\ loop_pc' = "ready"
    /\ cached_leaderboard' = 0
    /\ UNCHANGED <<requests, good_cycles, last_outcome, heap>>
    /\ UNCHANGED <<credVars, handlerVars>>
    /\ UNCHANGED pureVars

\* asyncio.sleep(seconds_to_sleep) returns: the interval has passed.
LoopWake ==
    /\ loop_pc = "sleeping"
    /\ now < MaxTime
    /\ now' = now + 1
    /\ loop_pc' = "ready"
    /\ UNCHANGED <<requests, good_cycles, last_outcome>>
    /\ UNCHANGED <<credVars, cacheVars, handlerVars>>
    /\ UNCHANGED pureVars

----------------------------------------------------------------------------
(* AdventOfCode.aoc_leaderboard.  The handler suspends in ctx.send; the    *)
(* table and the embed are built without suspending, so they are read from *)
(* the cached object in one step.                                          *)

\* Lines 107-132: the message with the table of top_n(n_disp) and the embed
\* stamped with last_updated.  self.cached_leaderboard is read here again;
\* on None the attribute access raises and nothing is sent.
BoardMessage(h, n_disp, redirected) ==
    IF cached_leaderboard = 0
    THEN [kind |-> "error", to |-> h, err |-> "AttributeError"]
    ELSE [kind |-> "board",
          to |-> h,
          n_disp |-> n_disp,
          members |-> top_n(heap[cached_leaderboard], n_disp),
          timestamp |-> heap[cached_leaderboard].last_updated,
          redirected |-> redirected]

\* History: the n the command was invoked with, kept with the message.
InAnswerTo(message, n) == message @@ [requested |-> n]

\* The command is invoked with n_disp = n and runs to its first suspension
\* that is followed by more code, or to its end.  After the notice n_disp
\* is overwritten, so the handler keeps nothing of n while it is suspended.
\* A message sent in answer to n_disp = n carries n as history.
CmdLeaderboard(h) ==
    /\ handler_pc[h] = "idle"
    /\ \E n \in NDisp :
        IF cached_leaderboard = 0
        THEN /\ sent' = [kind |-> "no_cache", to |-> h]
             /\ UNCHANGED handler_pc
        ELSE IF ~(0 <= n /\ n <= max_entries)
        THEN /\ sent' = InAnswerTo([kind |-> "notice", to |-> h], n)
             /\ handler_pc' = [handler_pc EXCEPT ![h] = "notice"]
        ELSE /\ sent' = InAnswerTo(BoardMessage(h, n, FALSE), n)
             /\ UNCHANGED handler_pc
    /\ UNCHANGED <<credVars, cacheVars, loopVars>>
    /\ UNCHANGED pureVars

\* ctx.send of the notice returned: n_disp = max_entries, then the table.
CmdLeaderboardResume(h) ==
    /\ handler_pc[h] = "notice"
    /\ sent' = BoardMessage(h, max_entries, TRUE)
    /\ handler_pc' = [handler_pc EXCEPT ![h] = "idle"]
    /\ UNCHANGED <<credVars, cacheVars, loopVars>>
    /\ UNCHANGED pureVars

\* about_aoc: the text read from about.txt at construction is sent.
CmdAbout(h) ==
    /\ handler_pc[h] = "idle"
    /\ sent' = [kind |-> "about", to |-> h]
    /\ UNCHANGED handler_pc
    /\ UNCHANGED <<credVars, cacheVars, loopVars>>
    /\ UNCHANGED pureVars

\* join_leaderboard: the text with the join code is sent.
CmdJoin(h) ==
    /\ handler_pc[h] = "idle"
    /\ sent' = [kind |-> "join", to |-> h]
    /\ UNCHANGED handler_pc
    /\ UNCHANGED <<credVars, cacheVars, loopVars>>
    /\ UNCHANGED pureVars

----------------------------------------------------------------------------
(* AdventOfCode.reauthenticate and the environment it reads.               *)

\* reauthenticate without its `global` statement: the assignment binds a
\* local name and the module global keeps its value.
reauthenticate_binds_local(cookie, env) == cookie

\* reauthenticate with the global reset in the except branch: a reload
\* without the variable wipes the credential.
reauthenticate_wipes_on_KeyError(cookie, env) ==
    IF EnvHas(env, "AOC_SESSION_COOKIE")
    THEN [session |-> EnvGet(env, "AOC_SESSION_COOKIE")]
    ELSE [session |-> ""]

\* The value of the global after lines 71-75: the environment's, or, on
\* KeyError, the one it had.
reauthenticate(cookie, env) ==
    IF EnvHas(env, "AOC_SESSION_COOKIE")
    THEN [session |-> EnvGet(env, "AOC_SESSION_COOKIE")]
    ELSE cookie

\* reauthenticate that also drops the cached leaderboard, to force a fetch
\* with the new cookie.
Reauthenticate_DropsCache ==
    /\ AOC_SESSION_COOKIE' = reauthenticate(AOC_SESSION_COOKIE, environ)
    /\ last_log' = IF EnvHas(environ, "AOC_SESSION_COOKIE")
                   THEN "update_forced" ELSE "env_not_set"
    /\ latest_credential' =
          IF EnvHas(environ, "AOC_SESSION_COOKIE")
          THEN EnvGet(environ, "AOC_SESSION_COOKIE") ELSE latest_credential
    /\ cached_leaderboard' = 0
    /\ UNCHANGED <<environ, heap>>
    /\ UNCHANGED <<loopVars, handlerVars>>
    /\ UNCHANGED pureVars

\* The last record in the log when reauthenticate returns: log.info of line
\* 70, or log.warning of line 74 after the KeyError.
reauthenticate_log(env) ==
    IF EnvHas(env, "AOC_SESSION_COOKIE") THEN "update_forced"
    ELSE "env_not_set"

\* The command does not suspend: it is one step.  Line 75 calls ctx.send
\* without awaiting it: the coroutine object is dropped, no message leaves
\* the bot, so sent is unchanged on both paths.
Reauthenticate ==
    /\ AOC_SESSION_COOKIE' = reauthenticate(AOC_SESSION_COOKIE, environ)
    /\ last_log' = reauthenticate_log(environ)
    /\ latest_credential' =
          IF EnvHas(environ, "AOC_SESSION_COOKIE")
          THEN EnvGet(environ, "AOC_SESSION_COOKIE") ELSE latest_credential
    /\ UNCHANGED environ
    /\ UNCHANGED <<cacheVars, loopVars, handlerVars>>
    /\ UNCHANGED pureVars

\* The operator of the process sets or unsets the variable.
SetEnviron ==
    /\ \E e \in Environs : e # environ /\ environ' = e
    /\ UNCHANGED <<AOC_SESSION_COOKIE, latest_credential, last_log>>
    /\ UNCHANGED <<cacheVars, loopVars, handlerVars>>
    /\ UNCHANGED pureVars

----------------------------------------------------------------------------
Next ==
    \/ StartLoop
    \/ LoopBeginFetch
    \/ LoopFetchFailed
    \/ LoopFirstBuild
    \/ LoopUpdate
    \/ LoopBuildFailed
    \/ LoopWake
    \/ \E h \in Handlers : CmdLeaderboard(h)
    \/ \E h \in Handlers : CmdLeaderboardResume(h)
    \/ \E h \in Handlers : CmdAbout(h)
    \/ \E h \in Handlers : CmdJoin(h)
    \/ Reauthenticate
    \/ SetEnviron

Spec == Init /\ [][Next]_vars

----------------------------------------------------------------------------
(* The functions of AocMember and AocLeaderboard applied on their own: the *)
(* bot stays as constructed, arg is one input and result what the call on  *)
(* it returned or raised.                                                  *)

botVars == <<credVars, cacheVars, loopVars, handlerVars>>

PureInit ==
    /\ AOC_SESSION_COOKIE = [session |-> ConfigCookie]
    /\ environ = {}
    /\ cached_leaderboard = 0
    /\ heap = <<>>
    /\ loop_pc = "not_started"
    /\ requests = <<>>
    /\ now = 0
    /\ handler_pc = [h \in Handlers |-> "idle"]
    /\ sent = NoMessage
    /\ good_cycles = <<>>
    /\ last_outcome = "none"
    /\ latest_credential = ConfigCookie
    /\ last_log = "none"
    /\ arg \in Calls
    /\ result = NoCall
    /\ objects = NoObjects
    /\ held = 0

Apply_starboard_from_json ==
    /\ arg.kind = "member"
    /\ result' = [fn |-> "_starboard_from_json",
                  r |-> _starboard_from_json(arg.v.completion_day_level)]
    /\ UNCHANGED <<arg, botVars, refVars>>

Apply_member_from_json ==
    /\ arg.kind = "member"
    /\ result' = [fn |-> "member_from_json", r |-> member_from_json(arg.v)]
    /\ UNCHANGED <<arg, botVars, refVars>>

Apply_from_json ==
    /\ arg.kind = "leaderboard"
    /\ result' = [fn |-> "from_json", r |-> from_json(arg.v, now)]
    /\ UNCHANGED <<arg, botVars, refVars>>

\* AocLeaderboard.__init__: a leaderboard constructed earlier, with one
\* member.
EarlierBoard ==
    [members |-> <<AocMember("zoe", 9, 0, EmptyStarboard, 40, 0)>>,
     _owner_id |-> 2, _event_year |-> 2017, last_updated |-> 0]

\* _update on a leaderboard built earlier from another document.
Apply_update ==
    /\ arg.kind = "leaderboard"
    /\ result' = [fn |-> "_update", r |-> _update(EarlierBoard, arg.v)]
    /\ UNCHANGED <<arg, botVars, refVars>>

\* The slice builds a new list: the leaderboard it is taken from is left as
\* it is.
Apply_top_n ==
    /\ arg.kind = "top_n"
    /\ result' = [fn |-> "top_n", r |-> top_n(arg.board, arg.n)]
    /\ UNCHANGED <<arg, botVars, refVars>>

Apply_json_from_url ==
    /\ arg.kind = "response"
    /\ result' = [fn |-> "json_from_url", r |-> json_from_url(arg.v)]
    /\ UNCHANGED <<arg, botVars, refVars>>

\* The member built from the raw JSON and the name column of its row.
RowOf(member) ==
    IF member.ok THEN [ok |-> TRUE, v |-> member.v, name |-> TableName(member.v)]
    ELSE member

Apply_table_row ==
    /\ arg.kind = "row"
    /\ result' = [fn |-> "table_row", r |-> RowOf(member_from_json(arg.v))]
    /\ UNCHANGED <<arg, botVars, refVars>>

\* A command of the Gitlab cog, invoked after on_ready filled the cache
\* from the projects the tracker listed; the argument arrives as a str.
Apply_gitlab_command ==
    /\ arg.kind = "gitlab"
    /\ result' = [fn |-> "gitlab",
                  r |-> GitlabCommand(arg.cmd,
                                      get_project(on_ready(arg.listed),
                                                  JStr(arg.project)),
                                      arg.response)]
    /\ UNCHANGED <<arg, botVars, refVars>>

PureNext ==
    \/ Apply_gitlab_command
    \/ Apply_table_row
    \/ Apply_starboard_from_json
    \/ Apply_member_from_json
    \/ Apply_from_json
    \/ Apply_update
    \/ Apply_top_n
    \/ Apply_json_from_url

PureSpec == PureInit /\ [][PureNext]_vars

----------------------------------------------------------------------------
(* The list objects of one AocLeaderboard: objects.lists are the lists     *)
(* built so far, objects.members is the address of the one self.members    *)
(* refers to, held the address a reader got from top_n.  A member is not   *)
(* assigned to after its construction, so members are values.              *)

\* Number of list objects followed.
MaxObjects == 4

\* self.members[:] = ..., which writes into the list self.members refers to.
_update_in_place(store, members) ==
    [store EXCEPT !.lists[store.members] = members]

\* Line 171: self.members = <the list _sorted_members built>, a new object
\* the attribute is rebound to.
_update_rebinds(store, members) ==
    [lists |-> Append(store.lists, members),
     members |-> Len(store.lists) + 1]

\* Line 180: self.members[:n], a new list object holding the slice.
top_n_slices(store, n) ==
    [store EXCEPT
        !.lists = Append(@, top_n([members |-> store.lists[store.members]], n))]

RefInit ==
    /\ AOC_SESSION_COOKIE = [session |-> ConfigCookie]
    /\ environ = {}
    /\ cached_leaderboard = 0
    /\ heap = <<>>
    /\ loop_pc = "not_started"
    /\ requests = <<>>
    /\ now = 0
    /\ handler_pc = [h \in Handlers |-> "idle"]
    /\ sent = NoMessage
    /\ good_cycles = <<>>
    /\ last_outcome = "none"
    /\ latest_credential = ConfigCookie
    /\ last_log = "none"
    /\ arg = NoCall
    /\ result = NoCall
    /\ \E body \in Bodies :
          /\ from_json(body, now).ok
          /\ objects = [lists |-> <<from_json(body, now).v.members>>,
                        members |-> 1]
    /\ held = 0

\* A reader calls top_n(n) and keeps the list it returns.
ReaderTopN ==
    /\ Len(objects.lists) < MaxObjects
    /\ \E n \in 1..(MaxMembers + 1) : objects' = top_n_slices(objects, n)
    /\ held' = Len(objects.lists) + 1
    /\ UNCHANGED <<arg, result, botVars>>

\* A refresh: _update with a body whose members build.
RefreshUpdate ==
    /\ Len(objects.lists) < MaxObjects
    /\ \E body \in Bodies :
          /\ "members" \in DOMAIN body
          /\ _sorted_members(body.members).ok
          /\ objects' = _update_rebinds(objects, _sorted_members(body.members).v)
    /\ UNCHANGED <<held, arg, result, botVars>>

RefNext == ReaderTopN \/ RefreshUpdate

RefSpec == RefInit /\ [][RefNext]_vars

----------------------------------------------------------------------------
(* Properties of the refresh loop and the cache.                           *)

LastCycle == good_cycles[Len(good_cycles)]

\* The steps that end a refresh attempt, by how it ended.
AttemptEnds == Len(requests') < Len(requests)
FetchFailedStep == AttemptEnds /\ last_outcome' = "fetch_failed"
BuildFailedStep == AttemptEnds /\ last_outcome' = "build_failed"
RefreshSucceededStep == Len(good_cycles') > Len(good_cycles)

\* C1: a refresh attempt whose fetch fails (a status other than 200, a body
\* that does not decode, a transport failure) leaves a read of the cache
\* returning what it returned before the attempt: the same snapshot with the
\* same members, owner, year and last_updated, or empty.
C1_FetchFailureKeepsCache == [][FetchFailedStep => Read' = Read]_vars

\* A fetch failed after a refresh had filled the cache.
C1_Witness == last_outcome = "fetch_failed" /\ cached_leaderboard # 0

\* C2: after any refresh attempt, failed ones included, the loop is back in
\* Idle (asleep until the next tick) or in a later attempt; no failed attempt
\* terminates the loop.
C2_LoopSurvivesFailedAttempt ==
    last_outcome \in {"fetch_failed", "build_failed"}
        => loop_pc \in {"sleeping", "ready", "awaiting"}

\* C3: a refresh attempt that fetched a 200 and whose build raised leaves the
\* cache as it was: empty stays empty, a cached snapshot keeps its members
\* and everything else.
C3_BuildFailureKeepsCache == [][BuildFailedStep => Read' = Read]_vars

\* A build failed after a refresh had filled the cache.
C3_Witness == last_outcome = "build_failed" /\ cached_leaderboard # 0

\* C4: once the cog has been set up, the refresh loop is running (it has
\* been started and nothing has ended it).
C4_LoopRunsOnceSetUp == loop_pc \in {"ready", "awaiting", "sleeping"}

\* The snapshot board is, field by field, what refresh cycle c built.
SnapshotOfCycle(board, c) ==
    /\ board.members = _sorted_members(c.raw.members).v
    /\ board.last_updated = c.at
    /\ "owner_id" \in DOMAIN c.raw => board._owner_id = c.raw.owner_id
    /\ "event" \in DOMAIN c.raw => board._event_year = c.raw.event

\* C5: whatever a reader gets from the cache is whole: the cached snapshot,
\* and the members and timestamp of every leaderboard message, are those of
\* one and the same successful refresh cycle.
C5_ReaderSeesWholeSnapshot ==
    /\ cached_leaderboard # 0 =>
          \E i \in 1..Len(good_cycles) :
              SnapshotOfCycle(heap[cached_leaderboard], good_cycles[i])
    /\ sent.kind = "board" =>
          \E i \in 1..Len(good_cycles) :
              /\ sent.timestamp = good_cycles[i].at
              /\ sent.members =
                    top_n([members |->
                              _sorted_members(good_cycles[i].raw.members).v],
                          sent.n_disp)

\* C6: a successful refresh leaves every snapshot built before it as it was
\* and points the cache at a snapshot that did not exist before.
C6_RefreshLeavesOldSnapshot ==
    [][RefreshSucceededStep =>
          /\ \A a \in 1..Len(heap) : heap'[a] = heap[a]
          /\ cached_leaderboard' \notin 0..Len(heap)]_vars

\* C7: after every successful refresh cycle the cached snapshot's
\* last_updated is the time that cycle built it, and its owner_id and
\* event_year are those of the JSON that cycle fetched.
C7_MetadataOfLatestCycle ==
    cached_leaderboard # 0 =>
        /\ heap[cached_leaderboard].last_updated = LastCycle.at
        /\ "owner_id" \in DOMAIN LastCycle.raw =>
              heap[cached_leaderboard]._owner_id = LastCycle.raw.owner_id
        /\ "event" \in DOMAIN LastCycle.raw =>
              heap[cached_leaderboard]._event_year = LastCycle.raw.event

\* C8: a read of the cache returns empty exactly when no refresh cycle has
\* succeeded yet, and otherwise a snapshot whose members are the sorted build
\* of the JSON the most recent successful cycle fetched.
C8_ReadIsLatestBuild ==
    /\ cached_leaderboard = 0 <=> good_cycles = <<>>
    /\ cached_leaderboard # 0 =>
          /\ cached_leaderboard \in 1..Len(heap)
          /\ Read.board.members = _sorted_members(LastCycle.raw.members).v

\* The cache holds the members of a later cycle than the one that built it.
C8_Witness ==
    /\ Len(good_cycles) >= 2
    /\ good_cycles[1].raw.members # LastCycle.raw.members
    /\ cached_leaderboard # 0

\* C9: at most one refresh attempt is in progress: a request is in flight
\* exactly while the loop awaits it, and never two.
C9_AtMostOneAttempt ==
    /\ Len(requests) <= 1
    /\ loop_pc = "awaiting" <=> Len(requests) = 1

\* A later attempt is in flight after an earlier one completed.
C9_Witness == Len(requests) = 1 /\ good_cycles # <<>>

\* C10: a fetch in flight keeps the cookies it was started with whatever
\* reload happens meanwhile, and a fetch that starts uses the value of the
\* last successful reload (the configured one before any reload).
C10_FetchUsesCredentialOfItsStart ==
    [][/\ (Len(requests') = Len(requests) /\ requests # <<>>)
            => requests' = requests
       /\ Len(requests') > Len(requests)
            => requests'[Len(requests')].cookies.session = latest_credential
      ]_vars

\* A fetch started after a reload carries that reload's value, and another
\* reload has replaced the credential while the fetch is in flight.
C10_Witness ==
    /\ Len(requests) = 1
    /\ requests[1].cookies.session = "tokA"
    /\ AOC_SESSION_COOKIE.session = "tokB"

----------------------------------------------------------------------------
(* Properties of the credential reload and of the leaderboard command.     *)

\* C11: a reload while the environment variable is absent leaves the stored
\* credential exactly as it was, and a reload with the variable present
\* replaces it wholesale: at all times the credential is the single value
\* the last reload that found the variable read (the configured one before
\* any), and no step taken while the variable is absent changes it.
C11_ReloadKeepsOrReplaces ==
    /\ [](AOC_SESSION_COOKIE = [session |-> latest_credential])
    /\ [][(~EnvHas(environ, "AOC_SESSION_COOKIE") /\ environ' = environ)
            => AOC_SESSION_COOKIE' = AOC_SESSION_COOKIE]_vars

\* A reload replaced the credential, then a reload without the variable ran
\* and the replaced value is still there.
C11_Witness ==
    /\ last_log = "env_not_set"
    /\ ~EnvHas(environ, "AOC_SESSION_COOKIE")
    /\ AOC_SESSION_COOKIE.session = "tokA"

\* A reload that found the variable missing: the warning is the new last
\* record of the log.
ReloadMissedStep == last_log' = "env_not_set" /\ last_log # "env_not_set"

\* C12: when a reload is invoked while the environment variable is absent,
\* the invoker has received the missing-credential message by the time the
\* reload completes; the failure is not only logged.
C12_MissingCredentialReachesInvoker ==
    [][ReloadMissedStep => sent'.kind = "env_not_set"]_vars

\* The first min(n, N) members of the cached snapshot, in order.
FirstOfCache(n) ==
    LET members == heap[cached_leaderboard].members
        k == IF n < Len(members) THEN n ELSE Len(members)
    IN  [i \in 1..k |-> members[i]]

\* A step of aoc_leaderboard for handler h while a snapshot is cached: the
\* command is invoked, or it resumes after the notice.
InvokedStep(h) ==
    /\ cached_leaderboard # 0
    /\ handler_pc[h] = "idle"
    /\ sent' # sent \/ handler_pc'[h] # "idle"
    /\ \A other \in Handlers \ {h} : handler_pc'[other] = handler_pc[other]
    /\ UNCHANGED <<credVars, cacheVars, loopVars>>

ResumedStep(h) == handler_pc[h] = "notice" /\ handler_pc'[h] = "idle"

\* C13: with a non-empty cache, a request for n outside 1..10 (0, negative,
\* more than 10) gets the redirect notice and then the first min(10, N)
\* members, never an error; a request for n in 1..10 gets the first
\* min(n, N) members and no notice.
C13_OutOfRangeClampedInRangeServed ==
    [][\A h \in Handlers :
          /\ InvokedStep(h) =>
                IF sent'.requested \in 1..max_entries
                THEN /\ sent'.kind = "board"
                     /\ sent'.members = FirstOfCache(sent'.requested)
                     /\ handler_pc'[h] = "idle"
                ELSE /\ sent'.kind = "notice"
                     /\ handler_pc'[h] = "notice"
          /\ ResumedStep(h) =>
                /\ sent'.kind = "board"
                /\ sent'.redirected
                /\ sent'.members = FirstOfCache(max_entries)
      ]_vars

----------------------------------------------------------------------------
(* Properties of top_n, of the sort, of the starboard and of the fetch.    *)

Min(a, b) == IF a < b THEN a ELSE b

\* C14: for a leaderboard of N members and n >= 1, top_n(n) returns the
\* first min(n, N) members in the leaderboard's order (all N when n is
\* larger), and the call leaves the leaderboard and the cache as they were.
C14_TopNIsPrefix ==
    [][(result'.fn = "top_n" /\ arg.n >= 1) =>
          LET members == arg.board.members
              k == Min(arg.n, Len(members))
          IN  /\ Len(result'.r) = k
              /\ \A i \in 1..k : result'.r[i] = members[i]
              /\ arg' = arg
              /\ UNCHANGED cacheVars
      ]_vars

\* top_n was asked for more members than there are and returned them all.
C14_Witness ==
    /\ result.fn = "top_n"
    /\ Len(arg.board.members) >= 2
    /\ arg.n > Len(arg.board.members)
    /\ result.r = arg.board.members

\* The members of a leaderboard that from_json or _update returned.
BuiltMembers == result.r.v.members

\* C15: for a raw leaderboard of N members, after the first build and after
\* a refresh alike, the member sequence has the N members of the input, is
\* non-increasing in local_score, and members of equal local_score are in
\* the order they have in the input (the member at position i has id i).
C15_SortedStable ==
    (result.fn \in {"from_json", "_update"} /\ result.r.ok) =>
        LET N == Len(arg.v.members)
        IN  /\ Len(BuiltMembers) = N
            /\ {BuiltMembers[i].aoc_id : i \in 1..N} = 1..N
            /\ \A i, j \in 1..N :
                  i < j =>
                    /\ BuiltMembers[i].local_score >= BuiltMembers[j].local_score
                    /\ BuiltMembers[i].local_score = BuiltMembers[j].local_score
                          => BuiltMembers[i].aoc_id < BuiltMembers[j].aoc_id

\* A refresh moved the last member of the input to the front and kept the
\* two tied members behind it in their input order.
C15_Witness ==
    /\ result.fn = "_update"
    /\ result.r.ok
    /\ Len(BuiltMembers) = 3
    /\ BuiltMembers[1].aoc_id = 3
    /\ BuiltMembers[2].aoc_id = 1
    /\ BuiltMembers[2].local_score = BuiltMembers[3].local_score

\* The items of the dict of days the parser was applied to.
DaysOfArg == arg.v.completion_day_level.v

DaysInRange ==
    \A i \in 1..Len(DaysOfArg) : DayNumber(DaysOfArg[i][1]) \in 1..StarboardSize

\* C16: for a dict whose day keys are all in 1..25 the parser returns 25
\* slots; the slot of a present day d (slot d-1 counting from 0) is
\* (true, true) if "2" is among that day's keys and (true, false)
\* otherwise, and the slot of an absent day is (false, false).
C16_GridOfDaysInRange ==
    (result.fn = "_starboard_from_json" /\ DaysInRange) =>
        /\ result.r.ok
        /\ Len(result.r.v) = 25
        /\ \A d \in 1..25 :
              LET present == {i \in 1..Len(DaysOfArg) :
                                 DayNumber(DaysOfArg[i][1]) = d}
              IN  IF present = {}
                  THEN result.r.v[d] = <<FALSE, FALSE>>
                  ELSE \A i \in present :
                          result.r.v[d] = <<TRUE, "2" \in DaysOfArg[i][2]>>

\* Two days in range were parsed, day 25 with both stars.
C16_Witness ==
    /\ result.fn = "_starboard_from_json"
    /\ DaysInRange
    /\ Len(DaysOfArg) = 2
    /\ result.r.ok
    /\ result.r.v[25] = <<TRUE, TRUE>>

\* C17: for a dict with a day key outside 1..25 ("0", "26") the parser
\* fails with the invalid-input error (the ValueError it raises for input
\* it rejects) and returns no grid.
C17_DayOutOfRangeRejected ==
    (result.fn = "_starboard_from_json" /\ ~DaysInRange) =>
        /\ ~result.r.ok
        /\ result.r.err = "ValueError"

\* C18: every member that is built has a grid of 25 slots in which the
\* second star of a day implies the first, and a summary with
\* 0 <= days with two stars <= days with one star <= 25.
C18_PartTwoImpliesPartOne ==
    (result.fn = "member_from_json" /\ result.r.ok) =>
        LET member == result.r.v
        IN  /\ Len(member.starboard) = 25
            /\ \A d \in 1..25 : member.starboard[d][2] => member.starboard[d][1]
            /\ 0 <= member.completions[2]
            /\ member.completions[2] <= member.completions[1]
            /\ member.completions[1] <= 25

\* A member was built from a day that lists star "2" without star "1".
C18_Witness ==
    /\ result.fn = "member_from_json"
    /\ result.r.ok
    /\ \E i \in 1..Len(DaysOfArg) : DaysOfArg[i][2] = {"2"}

\* C19: the summary of every member that is built is the number of slots of
\* its own grid with the first star and the number with the second.
C19_SummaryCountsGrid ==
    (result.fn = "member_from_json" /\ result.r.ok) =>
        LET member == result.r.v
            slots == 1..Len(member.starboard)
        IN  member.completions =
                <<Cardinality({d \in slots : member.starboard[d][1]}),
                  Cardinality({d \in slots : member.starboard[d][2]})>>

\* A member was built with two days of one star and one of them with two.
C19_Witness ==
    /\ result.fn = "member_from_json"
    /\ result.r.ok
    /\ result.r.v.completions = <<2, 1>>

\* C20: for every HTTP status other than 200 (other 2xx and 3xx, 4xx, 5xx)
\* the fetch fails with an error that carries the status and returns no
\* data; a body is returned only for status 200.
C20_Non200FailsWithStatus ==
    (result.fn = "json_from_url" /\ arg.v.kind = "http") =>
        /\ arg.v.status # HTTP_OK =>
              /\ ~result.r.ok
              /\ "status" \in DOMAIN result.r
              /\ result.r.status = arg.v.status
        /\ result.r.ok => (arg.v.status = HTTP_OK /\ result.r.v = arg.v.body)

----------------------------------------------------------------------------
(* Properties of the refresh loop and the handlers together.               *)

RequiredKeys == {"members", "owner_id", "event"}

\* C21: a refresh cycle whose 200 body lacks members, owner_id or event is a
\* build failure that leaves the cache as it was, on the first build and on
\* a refresh of a populated cache alike: no cycle succeeds on such a body,
\* and a step that ends in a build failure leaves a read of the cache
\* unchanged.
C21_IncompleteBodyIsBuildFailure ==
    [][/\ RefreshSucceededStep =>
             RequiredKeys \subseteq DOMAIN good_cycles'[Len(good_cycles')].raw
       /\ BuildFailedStep => Read' = Read
      ]_vars

\* C22: no failure of a refresh attempt reaches a leaderboard command:
\* whatever the loop did before, the command answers that there is no
\* cached leaderboard only while no cycle has succeeded, otherwise sends the
\* redirect notice or the first members of what the last successful cycle
\* built, and never ends in an error.
C22_FailuresStayInTheLoop ==
    [][(sent' # sent /\ sent'.kind \notin {"about", "join"}) =>
          /\ sent'.kind \in {"no_cache", "notice", "board"}
          /\ sent'.kind = "no_cache" => good_cycles = <<>>
          /\ sent'.kind = "notice" => good_cycles # <<>>
          /\ sent'.kind = "board" =>
                /\ good_cycles # <<>>
                /\ sent'.members =
                      top_n([members |->
                                _sorted_members(LastCycle.raw.members).v],
                            sent'.n_disp)
      ]_vars

\* A leaderboard was sent after the notice and the loop has ended in a build
\* failure.
C22_Witness ==
    /\ last_outcome = "build_failed"
    /\ loop_pc = "crashed"
    /\ sent.kind = "board"
    /\ sent.redirected

\* C23: the refresh loop is the only writer of the cache and no writer of
\* the credential: a step that is not the loop's (leaderboard,
\* reauthenticate, about, join) leaves the cache slot and every leaderboard
\* object as they were, and a step of the loop leaves the credential as it
\* was.
C23_LoopIsTheOnlyCacheWriter ==
    [][/\ loopVars' = loopVars => cacheVars' = cacheVars
       /\ loopVars' # loopVars => AOC_SESSION_COOKIE' = AOC_SESSION_COOKIE
      ]_vars

\* With a leaderboard cached, the credential has been reloaded and a handler
\* has answered a command.
C23_Witness ==
    /\ cached_leaderboard # 0
    /\ last_log = "update_forced"
    /\ AOC_SESSION_COOKIE.session = "tokB"
    /\ sent.kind \in {"about", "join", "board"}

\* C26: the cache never goes from non-empty back to empty: once a refresh
\* cycle has succeeded the cache is non-empty in every later state, so a
\* leaderboard handler suspended in the out-of-range notice (it passed the
\* non-empty check) finds a leaderboard when it resumes, and no handler has
\* ended in the error of dereferencing an empty cache.
C26_CacheNeverEmptiedAgain ==
    /\ good_cycles # <<>> => cached_leaderboard # 0
    /\ \A h \in Handlers : handler_pc[h] = "notice" => cached_leaderboard # 0
    /\ sent.kind # "error"

\* A handler is suspended in the notice, a second refresh cycle succeeded and
\* a third attempt failed.
C26_Witness ==
    /\ handler_pc[1] = "notice"
    /\ Len(good_cycles) = 2
    /\ last_outcome = "fetch_failed"

----------------------------------------------------------------------------
(* Properties of the name of a member and of its row in the table.         *)

AnonymousLabel(id_text) == Chars("Anonymous User") \o <<" ", "#">> \o id_text

\* The name column shows label: it starts with it and the rest is padding.
ColumnShows(column, label) ==
    /\ Len(column) >= Len(label)
    /\ SubSeq(column, 1, Len(label)) = label
    /\ \A i \in (Len(label) + 1)..Len(column) : column[i] = " "

\* The name of the built member is the sentinel exactly when the raw name is
\* null or empty, and otherwise the raw name.
NameDefaulted ==
    IF arg.v.name = JNull \/ arg.v.name = JStr("")
    THEN result.r.v.name = "Anonymous User"
    ELSE result.r.v.name = arg.v.name.v

\* C24 as stated: for every raw member whose name is null or empty the built
\* name is "Anonymous User" and the row shows "Anonymous User #<id>"; a
\* non-empty name is kept.
C24_AnonymousShownWithId ==
    result.fn = "table_row" =>
        /\ result.r.ok
        /\ NameDefaulted
        /\ (arg.v.name = JNull \/ arg.v.name = JStr(""))
              => ColumnShows(result.r.name, AnonymousLabel(arg.id_text))

\* C24 amended: the same, with the row showing "Anonymous User #<id>" for
\* ids of at most 9 digits, the longest that fit the 25 characters of the
\* name column after the 16 of "Anonymous User #".
C24_AnonymousShownWithShortId ==
    result.fn = "table_row" =>
        /\ result.r.ok
        /\ NameDefaulted
        /\ ((arg.v.name = JNull \/ arg.v.name = JStr(""))
              /\ Len(AnonymousLabel(arg.id_text)) <= name_width)
              => ColumnShows(result.r.name, AnonymousLabel(arg.id_text))

\* A member with an empty name and a 9-digit id was built and its row made.
C24_Witness ==
    /\ result.fn = "table_row"
    /\ arg.v.name = JStr("")
    /\ Len(arg.id_text) = 9
    /\ result.r.v.name = "Anonymous User"

----------------------------------------------------------------------------
(* Properties of the project argument of the issue-tracker commands.       *)

\* The listed projects the argument names: by name, or by id written out.
NamedByArg ==
    {i \in 1..Len(arg.listed) :
        \/ arg.listed[i].name = arg.project
        \/ py_str(arg.listed[i].id) = arg.project}

\* C25: for get_issues, get_issue and create_issue, a project argument that
\* equals the name or the id of a cached project resolves to that project
\* (the request goes to it); only an argument that matches no name and no id
\* is answered "Unknown project", and then no request is sent.
C25_ProjectResolvedByNameOrId ==
    result.fn = "gitlab" =>
        IF NamedByArg = {}
        THEN result.r.reply = "unknown_project" /\ result.r.requests = <<>>
        ELSE /\ result.r.reply # "unknown_project"
             /\ Len(result.r.requests) = 1
             /\ \E i \in NamedByArg :
                   result.r.requests[1].project_id = arg.listed[i].id

----------------------------------------------------------------------------
(* Properties of the list a reader holds.                                  *)

\* C27: a member sequence top_n returned is never changed by a later
\* refresh: the list returned is an object of its own (not the one the
\* leaderboard refers to), a refresh rebinds the leaderboard to a list that
\* did not exist before and leaves every existing list as it was, so the
\* list a reader holds keeps its members.
C27_ReturnedMembersNeverChange ==
    [][/\ held' # objects'.members
       /\ held # 0 /\ held' = held => objects'.lists[held] = objects.lists[held]
       /\ (held' = held /\ objects' # objects) =>
             /\ objects'.members \notin 1..Len(objects.lists)
             /\ \A a \in 1..Len(objects.lists) :
                   objects'.lists[a] = objects.lists[a]
      ]_vars

\* A reader holds the members it read and a later refresh installed other
\* members.
C27_Witness ==
    /\ held # 0
    /\ objects.members > held
    /\ objects.lists[objects.members] # objects.lists[1]
    /\ Len(objects.lists[held]) >= 2

====
